---- MODULE Spec2Model ----
(***************************************************************************)
(* Verification model of krishh-p/hackthenorth2025:                        *)
(*   - the capture preprocessor (AudioWorklet Capture16kProcessor),        *)
(*   - the voice relay (session map and duplex forwarding),                *)
(*   - the AI Playground button menu (SimpleButton, ButtonMenu,            *)
(*     MenuManager, MenuExample).                                          *)
(* Each component has its own specification; the variables of the other    *)
(* components stay at their initial values in it.                          *)
(***************************************************************************)
EXTENDS Integers, Sequences, FiniteSets

VARIABLES
    \* ---- capture preprocessor (src/deploy.sh:104-148)
    sampleRate,     \* AudioWorkletGlobalScope.sampleRate, fixed at construction
    remnant,        \* this._remnant
    input,          \* the channel-0 block the capture runtime is filling / has handed to process
    phase,          \* "filling": the runtime is collecting the block; "posted": process ran on it
    pcm16,          \* the Int16Array posted through port.postMessage for the block
    nPosted,        \* number of blocks posted so far
    prevLen         \* length of the block posted before the current one (-1: none)

downVars == <<sampleRate, remnant, input, phase, pcm16, nPosted, prevLen>>

VARIABLES
    \* ---- audio relay (spec.md 3, 4.2, 5)
    sessionMap,     \* the session-id-to-connection map: a set of <<session id, pair>>
    nextPair,       \* the next connection pair to be created
    pairSid,        \* pair -> the session id it was opened for ("none": not created yet)
    clientLeg,      \* pair -> state of the client-facing connection
    upLeg,          \* pair -> state of the upstream connection
    closedBy,       \* pair -> which end closed first ("none", "client", "upstream")
    sentUp,         \* pair -> frames the client has sent, in order
    queueUp,        \* pair -> client frames received by the relay, not yet forwarded
    seenUp,         \* pair -> messages delivered to the upstream connection, in order
    sentDown,       \* pair -> frames the upstream has sent, in order
    queueDown,      \* pair -> upstream frames received by the relay, not yet forwarded
    seenDown,       \* pair -> messages delivered to the client connection, in order
    nFrames         \* total number of frames sent so far

relayVars == <<sessionMap, nextPair, pairSid, clientLeg, upLeg, closedBy,
               sentUp, queueUp, seenUp, sentDown, queueDown, seenDown, nFrames>>

VARIABLES
    \* ---- button menu (ButtonMenu.ts, MenuManager.ts, SimpleButton, MenuExample)
    prefab,          \* what ButtonMenu.buttonPrefab is: "none", "bare", "noText", "noInteractable", "full"
    mmLinked,        \* MenuManager.buttonMenu is assigned
    meLinked,        \* a MenuExample is in the scene, its menuManager assigned
    hasContainer,    \* ButtonMenu.menuContainer carries a ContainerFrame
    showMenuOnStart, \* MenuManager.showMenuOnStart
    bmStarted,       \* ButtonMenu.onStart has run
    mmStarted,       \* MenuManager.onStart has run
    meStarted,       \* MenuExample.onStart has run
    mmHandlers,      \* number of handleButtonClick listeners on ButtonMenu.onButtonClick
    defaultButtons,  \* MenuManager.defaultButtons
    buttonConfigs,   \* ButtonMenu.buttonConfigs
    aliased,         \* buttonConfigs and defaultButtons are the same array object
    children,        \* live SimpleButton objects under the menu, in creation order;
                     \* tracked: the object is in ButtonMenu.buttons
    buttonsStarted,  \* SimpleButton.onStart has run on the live buttons
    menuEnabled,     \* ButtonMenu.sceneObject.enabled
    container,       \* ButtonMenu.container is set
    innerHeight,     \* container.innerSize.y (0: the scene's value, never written)
    last,            \* the last menu operation and what it fired
    nAdds,           \* addButton / addCustomButton calls made so far
    apiCalled        \* a public method was called from outside the start callbacks

cfgVars == <<prefab, mmLinked, meLinked, hasContainer, showMenuOnStart>>
coreVars == <<children, buttonConfigs, innerHeight, menuEnabled, buttonsStarted,
              last, aliased, defaultButtons>>
menuVars == <<cfgVars, bmStarted, mmStarted, meStarted, mmHandlers, container, apiCalled,
              nAdds, coreVars>>

VARIABLES
    \* ---- object generator (ButtonSnap3DGenerator.ts and its anchored variant)
    genVariant,      \* "plain": ButtonSnap3DGenerator.ts; "anchored": the variant with an anchor session
    numPrompts,      \* objectPrompts.length
    isGenerating,    \* this.isGenerating
    genPending,      \* prompt indices of the factory requests that have not settled, in issue order
    genTimers,       \* indices i for which a DelayedCallbackEvent will call generateNextObject(i)
    anchorSession,   \* "none", "opening" (openSession pending), "open", "failed"
    anchorOp,        \* the anchor operation awaited by createAnchorForObject: "none", "create", "save"
    anchorFor,       \* the prompt index whose object createAnchorForObject is working on
    createdObjects,  \* this.createdObjects: ids <<sequence, prompt index>> in push order
    objectAnchors,   \* keys of this.objectAnchors
    savedAnchors,    \* ids whose anchor saveAnchor has stored
    genLog,          \* prompt indices requested from the factory in the current sequence
    genOutcomes,     \* how the requests of the current sequence settled, in order
    nSequences,      \* generation sequences started so far
    lastPinch        \* what the last button pinch did: "none", "accepted", "rejected"

genVars == <<genVariant, numPrompts, isGenerating, genPending, genTimers, anchorSession,
             anchorOp, anchorFor, createdObjects, objectAnchors, savedAnchors, genLog,
             genOutcomes, nSequences, lastPinch>>

VARIABLES
    \* ---- fires and extinguishers (FireBehavior, FireExtinguisherController,
    \*      WebSocketController)
    originalScale,        \* fire -> FireBehavior.originalScale <<x, y, z>>, in hundredths
    currentScale,         \* fire -> FireBehavior.currentScale, the object's local scale
    fireIntensity,        \* fire -> FireBehavior.fireIntensity, in units of 1 / originalScale.x
    isBeingExtinguished,  \* fire -> FireBehavior.isBeingExtinguished
    fireEvents,           \* fire -> number of UpdateEvents bound to updateExtinguishing
    isActive,             \* extinguisher -> FireExtinguisherController.isActive
    currentTargetFire,    \* extinguisher -> its currentTargetFire ("none": null)
    extUpdating,          \* extinguisher -> an UpdateEvent is bound to updateExtinguisher
    extPos,               \* extinguisher -> where the user holds it
    wsSet,                \* setWebSocketController was called on the fires and extinguishers
    wsConnected,          \* WebSocketController.isConnected
    wsSent,               \* notifications sent over the WebSocket, in order
    nMoves                \* user actions taken so far

fireVars == <<originalScale, currentScale, fireIntensity, isBeingExtinguished, fireEvents,
              isActive, currentTargetFire, extUpdating, extPos, wsSet, wsConnected, wsSent,
              nMoves>>

VARIABLES
    \* ---- one generated object (Snap3DInteractable)
    promptText,           \* promptDisplay.text, a sequence of characters
    objectName,           \* sceneObject.name: the original name and the tags appended to it
    components,           \* the special components created on the object, in order
    hasTempModel,         \* tempModel was instantiated
    hasFinalModel,        \* finalModel is instantiated
    snapController,       \* Snap3DInteractable.webSocketController is set
    nDeliveries           \* calls of setModel so far

snapVars == <<promptText, objectName, components, hasTempModel, hasFinalModel, snapController,
              nDeliveries>>

vars == <<downVars, relayVars, menuVars, genVars, fireVars, snapVars>>

notDown == <<relayVars, menuVars, genVars, fireVars, snapVars>>
notRelay == <<downVars, menuVars, genVars, fireVars, snapVars>>
notMenu == <<downVars, relayVars, genVars, fireVars, snapVars>>
notGen == <<downVars, relayVars, menuVars, fireVars, snapVars>>
notFire == <<downVars, relayVars, menuVars, genVars, snapVars>>
notSnap == <<downVars, relayVars, menuVars, genVars, fireVars>>

----------------------------------------------------------------------------
(* Bounds of the model                                                     *)

\* longest input block the capture runtime delivers
MaxBlockLen == 6
\* number of posted blocks explored
MaxPosted == 2
\* samples are the rationals n / SampleDen
SampleDen == 4

\* connection pairs ever created by the relay
MaxPairs == 2
\* frames sent over all connections
MaxFrames == 2
\* addButton / addCustomButton calls explored
MaxAdds == 1
\* longest objectPrompts list
MaxPrompts == 3
\* factory requests issued over all generation sequences
MaxRequests == 6
\* user actions on the extinguishers and the socket (grab, release, move, connect)
MaxMoves == 5
\* models delivered to one generated object through setModel
MaxDeliveries == 3

----------------------------------------------------------------------------
(* Capture preprocessor                                                    *)

TargetRate == 16000
PcmNegScale == 32768
PcmPosScale == 32767

\* native capture rates (AudioContext.sampleRate)
Rates == {16000, 44100, 48000}

\* sample numerators: -1.5, -0.75, 0.25, 1.25 for SampleDen = 4
Samples == {-6, -3, 1, 5}

Min(a, b) == IF a < b THEN a ELSE b
Max(a, b) == IF a > b THEN a ELSE b

\* Math.floor(float32.length / step), step = sampleRate / 16000
OutLenCeil(len, rate) == (len * TargetRate + rate - 1) \div rate
OutLen(len, rate) == (len * TargetRate) \div rate

\* Math.floor(i * step), i zero-based
SrcIndex(i, rate) == (i * rate) \div TargetRate

\* Math.max(-1, Math.min(1, s)) on numerators
Clamp(s) == Max(-SampleDen, Min(SampleDen, s))

\* s < 0 ? s * 0x8000 : s * 0x7FFF ; the numerator of the product over SampleDen
Scale(s) == IF s < 0 THEN s * PcmNegScale ELSE s * PcmPosScale

\* the store into an Int16Array element: truncate toward zero, then wrap modulo 2^16
Trunc(num) == IF num < 0 THEN -((-num) \div SampleDen) ELSE num \div SampleDen
ToInt16(num) == ((Trunc(num) + 32768) % 65536) - 32768

\* one iteration of the loop body: out[j++] = clamp-then-scale of float32[idx]
Pcm16NoClamp(s) == ToInt16(Scale(s))
Pcm16Of(s) == ToInt16(Scale(Clamp(s)))

DownsampleTo16k(float32, rate) ==
    [i \in 1..OutLen(Len(float32), rate) |->
        Pcm16Of(float32[SrcIndex(i - 1, rate) + 1])]

\* what process leaves in this._remnant: new Float32Array(0)
KeepRemainder(merged, rate) ==
    SubSeq(merged, SrcIndex(OutLen(Len(merged), rate), rate) + 1, Len(merged))
NextRemnant(merged, rate) == <<>>

DownStart(rates) ==
    /\ sampleRate \in rates
    /\ remnant = <<>>
    /\ input = <<>>
    /\ phase = "filling"
    /\ pcm16 = <<>>
    /\ nPosted = 0
    /\ prevLen = -1

Pairs == 1..MaxPairs

RelayStart ==
    /\ sessionMap = {}
    /\ nextPair = 1
    /\ pairSid = [p \in Pairs |-> "none"]
    /\ clientLeg = [p \in Pairs |-> "none"]
    /\ upLeg = [p \in Pairs |-> "none"]
    /\ closedBy = [p \in Pairs |-> "none"]
    /\ sentUp = [p \in Pairs |-> <<>>]
    /\ queueUp = [p \in Pairs |-> <<>>]
    /\ seenUp = [p \in Pairs |-> <<>>]
    /\ sentDown = [p \in Pairs |-> <<>>]
    /\ queueDown = [p \in Pairs |-> <<>>]
    /\ seenDown = [p \in Pairs |-> <<>>]
    /\ nFrames = 0

Cfg(id, text) == [id |-> id, text |-> text]

\* MenuManager.defaultButtons as constructed
DefaultButtons ==
    <<Cfg("action1", "Action 1"), Cfg("action2", "Action 2"),
      Cfg("action3", "Action 3"), Cfg("close", "Close Menu")>>

Op(name) == [op |-> name, id |-> "", text |-> "", fired |-> <<>>]

\* the scene, set up as MENU_INSTRUCTIONS.md asks: the button prefab carries a
\* SimpleButton, a Text and an Interactable, MenuManager.buttonMenu is assigned;
\* the scene may or may not hold a MenuExample, the menu container may or may not
\* carry a ContainerFrame, showMenuOnStart is the author's choice
MenuStart(prefabs, flags) ==
    /\ prefab \in prefabs
    /\ mmLinked = TRUE
    /\ meLinked \in flags
    /\ hasContainer \in flags
    /\ showMenuOnStart \in flags
    /\ nAdds = 0
    /\ bmStarted = FALSE
    /\ mmStarted = FALSE
    /\ meStarted = FALSE
    /\ mmHandlers = 0
    /\ defaultButtons = DefaultButtons
    /\ buttonConfigs = <<>>
    /\ aliased = FALSE
    /\ children = <<>>
    /\ buttonsStarted = FALSE
    /\ menuEnabled = TRUE
    /\ container = FALSE
    /\ innerHeight = 0
    /\ last = Op("none")
    /\ apiCalled = FALSE

\* the generator after onAwake, with its PinchButton and factory in place
GenStart(variants, counts) ==
    /\ genVariant \in variants
    /\ numPrompts \in counts
    /\ isGenerating = FALSE
    /\ genPending = <<>>
    /\ genTimers = {}
    /\ anchorSession = "none"
    /\ anchorOp = "none"
    /\ anchorFor = 0
    /\ createdObjects = <<>>
    /\ objectAnchors = {}
    /\ savedAnchors = {}
    /\ genLog = <<>>
    /\ genOutcomes = <<>>
    /\ nSequences = 0
    /\ lastPinch = "none"

\* the components a specification leaves alone, as constructed
IdleGen == GenStart({"plain"}, {3})

Fires == {"f1", "f2"}
Extinguishers == {"e1", "e2"}

\* FireBehavior.onAwake and FireExtinguisherController.onAwake have run
FireStart(scales, flags) ==
    /\ originalScale \in [Fires -> scales]
    /\ currentScale = originalScale
    /\ fireIntensity = [f \in Fires |-> originalScale[f][1]]
    /\ isBeingExtinguished = [f \in Fires |-> FALSE]
    /\ fireEvents = [f \in Fires |-> 0]
    /\ isActive = [e \in Extinguishers |-> FALSE]
    /\ currentTargetFire = [e \in Extinguishers |-> "none"]
    /\ extUpdating = [e \in Extinguishers |-> FALSE]
    /\ extPos = [e \in Extinguishers |-> "away"]
    /\ wsSet \in flags
    /\ wsConnected = FALSE
    /\ wsSent = <<>>
    /\ nMoves = 0

IdleFire == FireStart({<<3, 3, 3>>}, {TRUE})

\* Snap3DInteractable.onAwake has run and the factory has called setPrompt
SnapStart(prompts) ==
    /\ promptText \in prompts
    /\ objectName = <<"Snap3DInteractable">>
    /\ components = <<>>
    /\ hasTempModel = FALSE
    /\ hasFinalModel = FALSE
    /\ snapController = FALSE
    /\ nDeliveries = 0

IdleSnap == SnapStart({<<"c", "u", "b", "e">>})

DownInit ==
    /\ DownStart(Rates)
    /\ RelayStart
    /\ MenuStart({"full"}, {TRUE})
    /\ IdleGen
    /\ IdleFire
    /\ IdleSnap

\* the capture runtime collects one more sample of the next block
Capture(s) ==
    /\ phase = "filling"
    /\ Len(input) < MaxBlockLen
    /\ input' = Append(input, s)
    /\ UNCHANGED <<sampleRate, remnant, phase, pcm16, nPosted, prevLen>>
    /\ UNCHANGED notDown

\* process(inputs) with a connected input: merge, resample, clear the remnant, post
Process ==
    /\ phase = "filling"
    /\ nPosted < MaxPosted
    /\ LET merged == remnant \o input
       IN /\ pcm16' = DownsampleTo16k(merged, sampleRate)
          /\ remnant' = NextRemnant(merged, sampleRate)
    /\ phase' = "posted"
    /\ nPosted' = nPosted + 1
    /\ UNCHANGED <<sampleRate, input, prevLen>>
    /\ UNCHANGED notDown

\* process(inputs) with no input connected: returns true, posts nothing
ProcessNoInput ==
    /\ phase = "filling"
    /\ input = <<>>
    /\ UNCHANGED downVars
    /\ UNCHANGED notDown

\* the runtime starts collecting the next block; the posted buffer was transferred
NextBlock ==
    /\ phase = "posted"
    /\ phase' = "filling"
    /\ input' = <<>>
    /\ pcm16' = <<>>
    /\ prevLen' = Len(input)
    /\ UNCHANGED <<sampleRate, remnant, nPosted>>
    /\ UNCHANGED notDown

DownNext ==
    \/ \E s \in Samples : Capture(s)
    \/ Process
    \/ ProcessNoInput
    \/ NextBlock

SpecDown == DownInit /\ [][DownNext]_vars

----------------------------------------------------------------------------
(* Audio relay                                                             *)

SessionIds == {"sA", "sB"}

\* a frame carries the pair and the direction it was sent on, and its send position
Frame(p, dir, n) == [src |-> p, dir |-> dir, n |-> n]

\* the session map may take a new entry for sid only when it holds none
CanConnectUnguarded(sid) == TRUE
CanConnect(sid) == \A e \in sessionMap : e[1] # sid

\* the pair a frame received on pair p is forwarded to
RouteToOther(p) == IF p = 1 THEN MaxPairs ELSE p - 1
Route(p) == p

\* the next frame a forwarding step takes from its queue, and what it leaves
PickLast(q) == q[Len(q)]
Pick(q) == Head(q)
Rest(q) == Tail(q)

\* the message a forwarding step sends for the frame it took: that frame alone
Envelope(f) == <<f>>

\* the client opens the duplex connection for sid; the relay registers the pair
\* and starts opening the upstream connection
Connect(sid) ==
    /\ nextPair <= MaxPairs
    /\ CanConnect(sid)
    /\ sessionMap' = sessionMap \cup {<<sid, nextPair>>}
    /\ pairSid' = [pairSid EXCEPT ![nextPair] = sid]
    /\ clientLeg' = [clientLeg EXCEPT ![nextPair] = "open"]
    /\ upLeg' = [upLeg EXCEPT ![nextPair] = "connecting"]
    /\ nextPair' = nextPair + 1
    /\ UNCHANGED <<closedBy, sentUp, queueUp, seenUp, sentDown, queueDown, seenDown, nFrames>>
    /\ UNCHANGED notRelay

\* the upstream connection of pair p is established
UpstreamOpened(p) ==
    /\ upLeg[p] = "connecting"
    /\ upLeg' = [upLeg EXCEPT ![p] = "open"]
    /\ UNCHANGED <<sessionMap, nextPair, pairSid, clientLeg, closedBy,
                   sentUp, queueUp, seenUp, sentDown, queueDown, seenDown, nFrames>>
    /\ UNCHANGED notRelay

\* the client sends one audio frame on its open connection
ClientSend(p) ==
    /\ clientLeg[p] = "open"
    /\ nFrames < MaxFrames
    /\ LET f == Frame(p, "up", Len(sentUp[p]) + 1)
       IN /\ sentUp' = [sentUp EXCEPT ![p] = Append(@, f)]
          /\ queueUp' = [queueUp EXCEPT ![p] = Append(@, f)]
    /\ nFrames' = nFrames + 1
    /\ UNCHANGED <<sessionMap, nextPair, pairSid, clientLeg, upLeg, closedBy,
                   seenUp, sentDown, queueDown, seenDown>>
    /\ UNCHANGED notRelay

\* the upstream service sends one response frame or control message
UpstreamSend(p) ==
    /\ upLeg[p] = "open"
    /\ nFrames < MaxFrames
    /\ LET f == Frame(p, "down", Len(sentDown[p]) + 1)
       IN /\ sentDown' = [sentDown EXCEPT ![p] = Append(@, f)]
          /\ queueDown' = [queueDown EXCEPT ![p] = Append(@, f)]
    /\ nFrames' = nFrames + 1
    /\ UNCHANGED <<sessionMap, nextPair, pairSid, clientLeg, upLeg, closedBy,
                   sentUp, queueUp, seenUp, seenDown>>
    /\ UNCHANGED notRelay

\* client -> upstream forwarding step of pair p: one frame, as soon as received
ForwardUp(p) ==
    /\ <<pairSid[p], p>> \in sessionMap
    /\ clientLeg[p] = "open"
    /\ queueUp[p] # <<>>
    /\ upLeg[Route(p)] = "open"
    /\ seenUp' = [seenUp EXCEPT ![Route(p)] = Append(@, Envelope(Pick(queueUp[p])))]
    /\ queueUp' = [queueUp EXCEPT ![p] = Rest(@)]
    /\ UNCHANGED <<sessionMap, nextPair, pairSid, clientLeg, upLeg, closedBy,
                   sentUp, sentDown, queueDown, seenDown, nFrames>>
    /\ UNCHANGED notRelay

\* upstream -> client forwarding step of pair p
ForwardDown(p) ==
    /\ <<pairSid[p], p>> \in sessionMap
    /\ upLeg[p] = "open"
    /\ queueDown[p] # <<>>
    /\ clientLeg[Route(p)] = "open"
    /\ seenDown' = [seenDown EXCEPT ![Route(p)] = Append(@, Envelope(Pick(queueDown[p])))]
    /\ queueDown' = [queueDown EXCEPT ![p] = Rest(@)]
    /\ UNCHANGED <<sessionMap, nextPair, pairSid, clientLeg, upLeg, closedBy,
                   sentUp, queueUp, seenUp, sentDown, nFrames>>
    /\ UNCHANGED notRelay

\* the client closes (or loses) its connection
ClientClose(p) ==
    /\ clientLeg[p] = "open"
    /\ clientLeg' = [clientLeg EXCEPT ![p] = "closed"]
    /\ closedBy' = [closedBy EXCEPT ![p] = IF @ = "none" THEN "client" ELSE @]
    /\ UNCHANGED <<sessionMap, nextPair, pairSid, upLeg,
                   sentUp, queueUp, seenUp, sentDown, queueDown, seenDown, nFrames>>
    /\ UNCHANGED notRelay

\* the upstream closes the connection, or refuses or drops it
UpstreamClose(p) ==
    /\ upLeg[p] \in {"connecting", "open"}
    /\ upLeg' = [upLeg EXCEPT ![p] = "closed"]
    /\ closedBy' = [closedBy EXCEPT ![p] = IF @ = "none" THEN "upstream" ELSE @]
    /\ UNCHANGED <<sessionMap, nextPair, pairSid, clientLeg,
                   sentUp, queueUp, seenUp, sentDown, queueDown, seenDown, nFrames>>
    /\ UNCHANGED notRelay

\* what the relay's teardown leaves of the two legs of a pair
CloseOnlyClosed(leg) == leg
CloseLeg(leg) == "closed"

\* the relay notices that a leg of pair p closed: it closes the other side, drops
\* what is queued (no partial drain) and releases the session mapping; the
\* session's frames are transient and nothing of them is kept
Teardown(p) ==
    /\ <<pairSid[p], p>> \in sessionMap
    /\ clientLeg[p] = "closed" \/ upLeg[p] = "closed"
    /\ clientLeg' = [clientLeg EXCEPT ![p] = CloseLeg(@)]
    /\ upLeg' = [upLeg EXCEPT ![p] = CloseLeg(@)]
    /\ queueUp' = [queueUp EXCEPT ![p] = <<>>]
    /\ queueDown' = [queueDown EXCEPT ![p] = <<>>]
    /\ sentUp' = [sentUp EXCEPT ![p] = <<>>]
    /\ seenUp' = [seenUp EXCEPT ![p] = <<>>]
    /\ sentDown' = [sentDown EXCEPT ![p] = <<>>]
    /\ seenDown' = [seenDown EXCEPT ![p] = <<>>]
    /\ sessionMap' = sessionMap \ {<<pairSid[p], p>>}
    /\ UNCHANGED <<nextPair, pairSid, closedBy, nFrames>>
    /\ UNCHANGED notRelay

RelayInit ==
    /\ RelayStart
    /\ DownStart({48000})
    /\ MenuStart({"full"}, {TRUE})
    /\ IdleGen
    /\ IdleFire
    /\ IdleSnap

RelayNext ==
    \/ \E sid \in SessionIds : Connect(sid)
    \/ \E p \in Pairs : UpstreamOpened(p)
    \/ \E p \in Pairs : ClientSend(p)
    \/ \E p \in Pairs : UpstreamSend(p)
    \/ \E p \in Pairs : ForwardUp(p)
    \/ \E p \in Pairs : ForwardDown(p)
    \/ \E p \in Pairs : ClientClose(p)
    \/ \E p \in Pairs : UpstreamClose(p)
    \/ \E p \in Pairs : Teardown(p)

SpecRelay == RelayInit /\ [][RelayNext]_vars

\* the relay's own steps are scheduled: a due teardown or forwarding step is taken
SpecRelayFair ==
    /\ SpecRelay
    /\ \A p \in Pairs : WF_vars(Teardown(p))

----------------------------------------------------------------------------
(* Button menu                                                             *)

ButtonSpacing == 3

\* the button prefab of the setup instructions ("bare": no SimpleButton,
\* "noInteractable": a SimpleButton and a Text only)
Prefabs == {"full"}

\* MenuExample.onStart's aiButtons
AiButtons ==
    <<Cfg("generate_image", "Generate Image"), Cfg("ask_question", "Ask AI Question"),
      Cfg("voice_command", "Voice Command"), Cfg("settings", "Settings"),
      Cfg("help", "Help"), Cfg("close", "Close")>>

\* the customButtons of the usage example
DocButtons == <<Cfg("action1", "My Action"), Cfg("action2", "Another Action")>>

\* arrays that callers pass to createButtons / showMenu / customizeMenu
InputArrays == {<<>>, DocButtons}
\* configs that callers pass to addButton / addCustomButton
InputConfigs == {Cfg("help", "Help")}
\* ids that callers pass to removeButton
InputIds == {"action1", "help"}

\* the button prefab instantiates an object with a SimpleButton component
PrefabHasSimpleButton == prefab \in {"noInteractable", "full"}
\* that SimpleButton has its textComponent assigned
PrefabHasText == prefab \in {"noInteractable", "full"}
\* the instantiated object carries an Interactable
PrefabHasInteractable == prefab \in {"full"}

\* SimpleButton's text setter and getter: without a textComponent the text stays ""
TextOf(config) == IF PrefabHasText THEN config.text ELSE ""

\* ButtonMenu.clearButtons: destroy every object in this.buttons, then this.buttons = []
ClearButtonsNoDestroy(ch) == [i \in 1..Len(ch) |-> [ch[i] EXCEPT !.tracked = FALSE]]
IsUntracked(c) == ~c.tracked
ClearButtons(ch) == SelectSeq(ch, IsUntracked)

\* ButtonMenu.createButton: instantiate the prefab, set id and text, push to this.buttons
CreateButton(ch, config) ==
    IF PrefabHasSimpleButton
    THEN Append(ch, [id |-> config.id, text |-> TextOf(config), tracked |-> TRUE])
    ELSE ch

\* the for loop of ButtonMenu.createButtons
RECURSIVE CreateAll(_, _)
CreateAll(ch, configs) ==
    IF configs = <<>> THEN ch
    ELSE CreateAll(CreateButton(ch, Head(configs)), Tail(configs))

\* the container height ButtonMenu.createButtons sets
HeightFor(n) == (n - 1) * ButtonSpacing + 6

\* ButtonMenu.createButtons(configs)
DoCreate(configs) ==
    /\ children' = CreateAll(ClearButtons(children), configs)
    /\ buttonConfigs' = configs
    /\ innerHeight' = IF container /\ Len(configs) > 0 THEN HeightFor(Len(configs))
                      ELSE innerHeight
    /\ menuEnabled' = TRUE
    /\ buttonsStarted' = FALSE
    /\ last' = Op("create")

EffCreate(configs, alias, newDefault) ==
    /\ DoCreate(configs)
    /\ aliased' = alias
    /\ defaultButtons' = newDefault

EffNothing ==
    /\ last' = Op("other")
    /\ UNCHANGED <<children, buttonConfigs, innerHeight, menuEnabled,
                   buttonsStarted, aliased, defaultButtons>>

\* MenuManager.showMenu(buttons): alias tells whether buttons is this.defaultButtons
EffShowMenu(buttons, alias) ==
    IF mmLinked THEN EffCreate(buttons, alias, defaultButtons) ELSE EffNothing

\* MenuManager.hideMenu
EffHideMenu ==
    IF mmLinked
    THEN /\ menuEnabled' = FALSE
         /\ last' = Op("other")
         /\ UNCHANGED <<children, buttonConfigs, innerHeight,
                        buttonsStarted, aliased, defaultButtons>>
    ELSE EffNothing

\* MenuManager.customizeMenu(buttons)
EffCustomize(buttons) ==
    IF mmLinked /\ menuEnabled
    THEN EffCreate(buttons, TRUE, buttons)
    ELSE /\ defaultButtons' = buttons
         /\ aliased' = FALSE
         /\ last' = Op("other")
         /\ UNCHANGED <<children, buttonConfigs, innerHeight, menuEnabled,
                        buttonsStarted>>

\* MenuManager.addCustomButton(config): push on defaultButtons (and so on
\* buttonConfigs when it is the same array), then show when the menu is enabled
EffAddCustom(config) ==
    LET pushed == Append(defaultButtons, config)
    IN IF mmLinked /\ menuEnabled
       THEN EffCreate(pushed, TRUE, pushed)
       ELSE /\ defaultButtons' = pushed
            /\ buttonConfigs' = IF aliased THEN pushed ELSE buttonConfigs
            /\ last' = Op("other")
            /\ UNCHANGED <<children, innerHeight, menuEnabled,
                           buttonsStarted, aliased>>

\* ---- start callbacks (OnStartEvent), in any order

ButtonMenuStart ==
    /\ ~bmStarted
    /\ bmStarted' = TRUE
    /\ container' = hasContainer
    /\ EffNothing
    /\ UNCHANGED <<cfgVars, mmStarted, meStarted, mmHandlers, apiCalled, nAdds>>
    /\ UNCHANGED notMenu

\* listeners on onButtonClick after MenuManager.onStart added handleButtonClick
AddHandlerTwice(n) == n + 2
AddHandler(n) == n + 1

MenuManagerStart ==
    /\ ~mmStarted
    /\ mmStarted' = TRUE
    /\ mmHandlers' = IF mmLinked THEN AddHandler(mmHandlers) ELSE mmHandlers
    /\ IF showMenuOnStart THEN EffShowMenu(defaultButtons, TRUE) ELSE EffNothing
    /\ UNCHANGED <<cfgVars, bmStarted, meStarted, container, apiCalled, nAdds>>
    /\ UNCHANGED notMenu

MenuExampleStart ==
    /\ ~meStarted
    /\ meStarted' = TRUE
    /\ IF meLinked THEN EffCustomize(AiButtons) ELSE EffNothing
    /\ UNCHANGED <<cfgVars, bmStarted, mmStarted, mmHandlers, container, apiCalled, nAdds>>
    /\ UNCHANGED notMenu

\* SimpleButton.onStart of the buttons instantiated since the last frame
SimpleButtonStart ==
    /\ children # <<>>
    /\ ~buttonsStarted
    /\ buttonsStarted' = TRUE
    /\ UNCHANGED <<children, buttonConfigs, innerHeight, menuEnabled,
                   last, aliased, defaultButtons>>
    /\ UNCHANGED <<cfgVars, bmStarted, mmStarted, meStarted, mmHandlers, container, apiCalled, nAdds>>
    /\ UNCHANGED notMenu

\* ---- public methods called by other scripts, in response to user interaction:
\* the start callbacks of the scene's components all run in the first frame

Called(adds) ==
    /\ bmStarted /\ mmStarted /\ meStarted
    /\ apiCalled' = TRUE
    /\ nAdds' = nAdds + adds
    /\ UNCHANGED <<cfgVars, bmStarted, mmStarted, meStarted, mmHandlers, container>>
    /\ UNCHANGED notMenu

CreateButtonsCall(configs) ==
    /\ EffCreate(configs, FALSE, defaultButtons)
    /\ Called(0)

ClearButtonsCall ==
    /\ children' = ClearButtons(children)
    /\ last' = Op("clear")
    /\ UNCHANGED <<buttonConfigs, innerHeight, menuEnabled, buttonsStarted,
                   aliased, defaultButtons>>
    /\ Called(0)

SetMenuVisibleCall(visible) ==
    /\ menuEnabled' = visible
    /\ last' = Op("other")
    /\ UNCHANGED <<children, buttonConfigs, innerHeight, buttonsStarted,
                   aliased, defaultButtons>>
    /\ Called(0)

\* ButtonMenu.addButton: push on this.buttonConfigs, then createButtons(this.buttonConfigs)
AddButtonCall(config) ==
    /\ nAdds < MaxAdds
    /\ LET pushed == Append(buttonConfigs, config)
       IN EffCreate(pushed, aliased, IF aliased THEN pushed ELSE defaultButtons)
    /\ Called(1)

\* ButtonMenu.removeButton: filter makes a new array, then createButtons
RemoveButtonCall(buttonId) ==
    /\ LET KeepIt(c) == c.id # buttonId
       IN EffCreate(SelectSeq(buttonConfigs, KeepIt), FALSE, defaultButtons)
    /\ Called(0)

ShowMenuCall ==
    /\ EffShowMenu(defaultButtons, TRUE)
    /\ Called(0)

ShowMenuWithCall(buttons) ==
    /\ EffShowMenu(buttons, FALSE)
    /\ Called(0)

HideMenuCall ==
    /\ EffHideMenu
    /\ Called(0)

ToggleMenuCall ==
    /\ IF mmLinked
       THEN IF menuEnabled THEN EffHideMenu ELSE EffShowMenu(defaultButtons, TRUE)
       ELSE EffNothing
    /\ Called(0)

CustomizeMenuCall(buttons) ==
    /\ EffCustomize(buttons)
    /\ Called(0)

AddCustomButtonCall(config) ==
    /\ nAdds < MaxAdds
    /\ EffAddCustom(config)
    /\ Called(1)

\* ---- clicks

MenuAction(actionType, buttonId, data, visible) ==
    [actionType |-> actionType, buttonId |-> buttonId, data |-> data,
     menuVisible |-> visible]

\* MenuManager.handleButtonClick: the events it fires on onMenuAction (each with
\* the menu's visibility at the moment it fires) and the visibility it leaves
HandleButtonClickFireFirst(event, visible) ==
    [fired |-> <<MenuAction(
                    CASE event.buttonId = "action1" -> "custom_action_1"
                      [] event.buttonId = "action2" -> "custom_action_2"
                      [] event.buttonId = "action3" -> "custom_action_3"
                      [] event.buttonId = "close" -> "menu_closed"
                      [] OTHER -> "unknown_action",
                    event.buttonId,
                    IF event.buttonId \in {"action1", "action2", "action3", "close"}
                    THEN "" ELSE event.buttonText,
                    visible)>>,
     visible |-> IF event.buttonId = "close" THEN FALSE ELSE visible]
HandleButtonClick(event, visible) ==
    CASE event.buttonId = "action1" ->
            [fired |-> <<MenuAction("custom_action_1", event.buttonId, "", visible)>>,
             visible |-> visible]
      [] event.buttonId = "action2" ->
            [fired |-> <<MenuAction("custom_action_2", event.buttonId, "", visible)>>,
             visible |-> visible]
      [] event.buttonId = "action3" ->
            [fired |-> <<MenuAction("custom_action_3", event.buttonId, "", visible)>>,
             visible |-> visible]
      [] event.buttonId = "close" ->
            [fired |-> <<MenuAction("menu_closed", event.buttonId, "", FALSE)>>,
             visible |-> FALSE]
      [] OTHER ->
            [fired |-> <<MenuAction("unknown_action", event.buttonId,
                                    event.buttonText, visible)>>,
             visible |-> visible]

\* ButtonMenu.onButtonClickEvent.invoke(event): every registered listener runs in turn
RECURSIVE Dispatch(_, _, _, _)
Dispatch(n, event, visible, fired) ==
    IF n = 0 THEN [fired |-> fired, visible |-> visible]
    ELSE LET r == HandleButtonClick(event, visible)
         IN Dispatch(n - 1, event, r.visible, fired \o r.fired)

\* the user pinches button i: Interactable.onTriggerEnd -> SimpleButton.onClick ->
\* ButtonMenu.onButtonClick -> MenuManager.handleButtonClick
Click(i) ==
    /\ bmStarted /\ mmStarted /\ meStarted
    /\ menuEnabled
    /\ buttonsStarted
    /\ PrefabHasInteractable
    /\ LET event == [buttonId |-> children[i].id, buttonText |-> children[i].text]
           r == Dispatch(mmHandlers, event, menuEnabled, <<>>)
       IN /\ menuEnabled' = r.visible
          /\ last' = [op |-> "click", id |-> event.buttonId, text |-> event.buttonText,
                      fired |-> r.fired]
    /\ UNCHANGED <<children, buttonConfigs, innerHeight, buttonsStarted,
                   aliased, defaultButtons>>
    /\ UNCHANGED <<cfgVars, bmStarted, mmStarted, meStarted, mmHandlers, container, apiCalled, nAdds>>
    /\ UNCHANGED notMenu

MenuInit ==
    /\ MenuStart(Prefabs, BOOLEAN)
    /\ DownStart({48000})
    /\ RelayStart
    /\ IdleGen
    /\ IdleFire
    /\ IdleSnap

MenuNext ==
    \/ ButtonMenuStart
    \/ MenuManagerStart
    \/ MenuExampleStart
    \/ SimpleButtonStart
    \/ \E configs \in InputArrays : CreateButtonsCall(configs)
    \/ ClearButtonsCall
    \/ \E visible \in BOOLEAN : SetMenuVisibleCall(visible)
    \/ \E config \in InputConfigs : AddButtonCall(config)
    \/ \E buttonId \in InputIds : RemoveButtonCall(buttonId)
    \/ ShowMenuCall
    \/ \E buttons \in InputArrays : ShowMenuWithCall(buttons)
    \/ HideMenuCall
    \/ ToggleMenuCall
    \/ \E buttons \in InputArrays : CustomizeMenuCall(buttons)
    \/ \E config \in InputConfigs : AddCustomButtonCall(config)
    \/ \E i \in 1..Len(children) : Click(i)

SpecMenu == MenuInit /\ [][MenuNext]_vars

----------------------------------------------------------------------------
(* Object generator                                                        *)

Variants == {"plain", "anchored"}

\* the uniqueId pushed for a prompt: `${Date.now()}:${cleanPrompt}`; requests of
\* one sequence are at least a second apart, so the ids differ
UniqueId(index) == <<nSequences, index>>

\* the guard of generateAllObjects
BusyNever == FALSE
Busy == isGenerating

\* the index the delayed callback passes to generateNextObject
SkipIndex(index) == index + 2
NextIndex(index) == index + 1

\* the delayed call bound in the catch branch
TimersAfterFailureNone(timers, index) == timers
TimersAfterFailure(timers, index) == timers \cup {NextIndex(index)}

\* the delayed call bound after a success
TimersAfterSuccess(timers, index) == timers \cup {NextIndex(index)}

\* the test that ends the sequence in generateNextObject
PastLastIndex(index) == index > numPrompts

RemoveAt(q, k) == [j \in 1..(Len(q) - 1) |-> IF j < k THEN q[j] ELSE q[j + 1]]

\* generateNextObject(index): past the last prompt the sequence ends, otherwise
\* the prompt is requested from the factory
GenerateNextObject(index, pending, log) ==
    IF PastLastIndex(index)
    THEN /\ isGenerating' = FALSE
         /\ genPending' = pending
         /\ genLog' = log
    ELSE /\ UNCHANGED isGenerating
         /\ genPending' = Append(pending, index)
         /\ genLog' = Append(log, index)

\* OnStartEvent of the anchored variant: initializeAnchorSession calls openSession
InitializeAnchorSession ==
    /\ genVariant = "anchored"
    /\ anchorSession = "none"
    /\ anchorSession' = "opening"
    /\ UNCHANGED <<genVariant, numPrompts, isGenerating, genPending, genTimers, anchorOp,
                   anchorFor, createdObjects, objectAnchors, savedAnchors, genLog,
                   genOutcomes, nSequences, lastPinch>>
    /\ UNCHANGED notGen

\* openSession settles
SessionSettled(ok) ==
    /\ anchorSession = "opening"
    /\ anchorSession' = IF ok THEN "open" ELSE "failed"
    /\ UNCHANGED <<genVariant, numPrompts, isGenerating, genPending, genTimers, anchorOp,
                   anchorFor, createdObjects, objectAnchors, savedAnchors, genLog,
                   genOutcomes, nSequences, lastPinch>>
    /\ UNCHANGED notGen

\* the button is pinched: generateAllObjects
GenerateAllObjects ==
    /\ IF Busy \/ numPrompts = 0 \/ (genVariant = "anchored" /\ anchorSession # "open")
       THEN /\ lastPinch' = "rejected"
            /\ UNCHANGED <<isGenerating, genPending, genLog, genOutcomes, nSequences>>
       ELSE /\ (nSequences + 1) * numPrompts <= MaxRequests
            /\ lastPinch' = "accepted"
            /\ nSequences' = nSequences + 1
            /\ isGenerating' = TRUE
            /\ genPending' = Append(genPending, 1)
            /\ genLog' = <<1>>
            /\ genOutcomes' = <<>>
    /\ UNCHANGED <<genVariant, numPrompts, genTimers, anchorSession, anchorOp, anchorFor,
                   createdObjects, objectAnchors, savedAnchors>>
    /\ UNCHANGED notGen

\* the factory request at position k of the pending ones settles
FactorySettled(k, ok) ==
    /\ k \in 1..Len(genPending)
    /\ LET index == genPending[k]
       IN /\ genPending' = RemoveAt(genPending, k)
          /\ genOutcomes' = Append(genOutcomes, IF ok THEN "ok" ELSE "failed")
          /\ IF ~ok
             THEN /\ genTimers' = TimersAfterFailure(genTimers, index)
                  /\ UNCHANGED <<createdObjects, anchorOp, anchorFor>>
             ELSE IF genVariant = "plain"
             THEN /\ createdObjects' = Append(createdObjects, UniqueId(index))
                  /\ genTimers' = TimersAfterSuccess(genTimers, index)
                  /\ UNCHANGED <<anchorOp, anchorFor>>
             ELSE IF anchorSession # "open"
             THEN /\ genTimers' = TimersAfterSuccess(genTimers, index)
                  /\ UNCHANGED <<createdObjects, anchorOp, anchorFor>>
             ELSE /\ anchorOp' = "create"
                  /\ anchorFor' = index
                  /\ UNCHANGED <<createdObjects, genTimers>>
    /\ UNCHANGED <<genVariant, numPrompts, isGenerating, anchorSession, objectAnchors,
                   savedAnchors, genLog, nSequences, lastPinch>>
    /\ UNCHANGED notGen

\* createWorldAnchor settles inside createAnchorForObject
AnchorCreated(ok) ==
    /\ anchorOp = "create"
    /\ IF ok
       THEN /\ objectAnchors' = objectAnchors \cup {UniqueId(anchorFor)}
            /\ createdObjects' = Append(createdObjects, UniqueId(anchorFor))
            /\ anchorOp' = "save"
            /\ UNCHANGED genTimers
       ELSE /\ anchorOp' = "none"
            /\ genTimers' = TimersAfterSuccess(genTimers, anchorFor)
            /\ UNCHANGED <<objectAnchors, createdObjects>>
    /\ UNCHANGED <<genVariant, numPrompts, isGenerating, genPending, anchorSession, anchorFor,
                   savedAnchors, genLog, genOutcomes, nSequences, lastPinch>>
    /\ UNCHANGED notGen

\* saveAnchor settles inside createAnchorForObject
AnchorSaved(ok) ==
    /\ anchorOp = "save"
    /\ anchorOp' = "none"
    /\ savedAnchors' = IF ok THEN savedAnchors \cup {UniqueId(anchorFor)} ELSE savedAnchors
    /\ genTimers' = TimersAfterSuccess(genTimers, anchorFor)
    /\ UNCHANGED <<genVariant, numPrompts, isGenerating, genPending, anchorSession, anchorFor,
                   createdObjects, objectAnchors, genLog, genOutcomes, nSequences, lastPinch>>
    /\ UNCHANGED notGen

\* a DelayedCallbackEvent fires: generateNextObject(index)
DelayedCallback(index) ==
    /\ index \in genTimers
    /\ genTimers' = genTimers \ {index}
    /\ GenerateNextObject(index, genPending, genLog)
    /\ UNCHANGED <<genVariant, numPrompts, anchorSession, anchorOp, anchorFor, createdObjects,
                   objectAnchors, savedAnchors, genOutcomes, nSequences, lastPinch>>
    /\ UNCHANGED notGen

GenInit ==
    /\ GenStart(Variants, 0..MaxPrompts)
    /\ DownStart({48000})
    /\ RelayStart
    /\ MenuStart({"full"}, {TRUE})
    /\ IdleFire
    /\ IdleSnap

GenNext ==
    \/ InitializeAnchorSession
    \/ \E ok \in BOOLEAN : SessionSettled(ok)
    \/ GenerateAllObjects
    \/ \E k \in 1..MaxPrompts + 1, ok \in BOOLEAN : FactorySettled(k, ok)
    \/ \E ok \in BOOLEAN : AnchorCreated(ok)
    \/ \E ok \in BOOLEAN : AnchorSaved(ok)
    \/ \E index \in 1..MaxPrompts + 2 : DelayedCallback(index)

SpecGen == GenInit /\ [][GenNext]_vars

\* every factory request eventually settles and delayed callbacks eventually fire
GenFairness ==
    /\ WF_vars(\E k \in 1..MaxPrompts + 1, ok \in BOOLEAN : FactorySettled(k, ok))
    /\ WF_vars(\E index \in 1..MaxPrompts + 2 : DelayedCallback(index))

SpecGenFair == SpecGen /\ GenFairness

----------------------------------------------------------------------------
(* Fires and extinguishers                                                 *)

\* FireBehavior.extinguishRate, 0.3 per second, in hundredths
ExtinguishRate == 30
\* FireBehavior.minimumScale
MinimumScale == 0
\* FireExtinguisherController.extinguisherRange
ExtinguisherRange == 30

\* original local scales of a fire object, in hundredths
OriginalScales == {<<3, 3, 3>>, <<3, 1, 1>>}
\* getDeltaTime(), in thirtieths of a second
DeltaTimes == {1, 2}
\* where an extinguisher can be held
Positions == {"away", "edgeF1", "nearF1", "middle", "nearF2"}

\* extinguisherPosition.distance(firePosition)
Distance(pos, f) ==
    CASE pos = "away" -> 40
      [] pos = "edgeF1" -> IF f = "f1" THEN 30 ELSE 45
      [] pos = "nearF1" -> IF f = "f1" THEN 10 ELSE 20
      [] pos = "middle" -> 15
      [] pos = "nearF2" -> IF f = "f1" THEN 20 ELSE 10

\* the order in which getAllSceneObjects meets the fires
FireOrder == <<"f1", "f2">>

\* FireBehavior.isExtinguished
IsExtinguished(f) == fireIntensity[f] <= MinimumScale

\* the loop of findNearestFire over the objects from position k on
RECURSIVE NearestFrom(_, _, _, _)
NearestFrom(k, e, nearestFire, nearestDistance) ==
    IF k > Len(FireOrder) THEN nearestFire
    ELSE LET f == FireOrder[k]
             distance == Distance(extPos[e], f)
         IN IF ~IsExtinguished(f) /\ distance <= nearestDistance
            THEN NearestFrom(k + 1, e, f, distance)
            ELSE NearestFrom(k + 1, e, nearestFire, nearestDistance)

\* FireExtinguisherController.findNearestFire
FindNearestFire(e) == NearestFrom(1, e, "none", ExtinguisherRange)

\* WebSocketController offers sendObjectPinched only: it has no send method
ControllerHasSend == FALSE

Message(type, name, status) == [type |-> type, objectName |-> name, status |-> status]

\* sendFireExtinguishEvent / sendExtinguisherEvent
SendEvent(sent, type, name, status) ==
    IF wsSet /\ ControllerHasSend THEN Append(sent, Message(type, name, status)) ELSE sent

\* FireBehavior.startExtinguishing on the world w = [being, events, sent]
StartExtinguishing(w, f) ==
    IF f = "none" \/ w.being[f] THEN w
    ELSE [being |-> [w.being EXCEPT ![f] = TRUE],
          events |-> [w.events EXCEPT ![f] = @ + 1],
          sent |-> SendEvent(w.sent, "fire_extinguished", f, "started")]

\* FireBehavior.stopExtinguishing
StopExtinguishingNever(w, f) == w
StopExtinguishing(w, f) ==
    IF f = "none" \/ ~w.being[f] THEN w
    ELSE [being |-> [w.being EXCEPT ![f] = FALSE],
          events |-> w.events,
          sent |-> SendEvent(w.sent, "fire_extinguished", f, "stopped")]

World == [being |-> isBeingExtinguished, events |-> fireEvents, sent |-> wsSent]

SetWorld(w) ==
    /\ isBeingExtinguished' = w.being
    /\ fireEvents' = w.events
    /\ wsSent' = w.sent

\* extinguishRate * deltaTime
ScaleReduction(dt) == (ExtinguishRate * dt) \div 30

\* one call of FireBehavior.updateExtinguishing (with fullyExtinguished) on the
\* fire r = [scale, intensity, being, sent]
UpdateExtinguishing(r, f, dt) ==
    IF ~r.being THEN r
    ELSE LET floor == originalScale[f][1] * MinimumScale
             newScaleValue == Max(r.scale[1] - ScaleReduction(dt), floor)
             newScale == <<newScaleValue, newScaleValue, newScaleValue>>
         IN IF newScaleValue <= floor
            THEN [scale |-> newScale, intensity |-> 0, being |-> FALSE,
                  sent |-> SendEvent(r.sent, "fire_extinguished", f, "extinguished")]
            ELSE [scale |-> newScale, intensity |-> newScaleValue, being |-> TRUE,
                  sent |-> r.sent]

\* a frame runs every UpdateEvent bound to updateExtinguishing, one after the other
RECURSIVE RunUpdateEvents(_, _, _, _)
RunUpdateEvents(n, r, f, dt) ==
    IF n = 0 THEN r ELSE RunUpdateEvents(n - 1, UpdateExtinguishing(r, f, dt), f, dt)

\* ---- the user

\* onTriggerStart: onExtinguisherActivated
ExtinguisherActivated(e) ==
    /\ nMoves < MaxMoves
    /\ ~isActive[e]
    /\ nMoves' = nMoves + 1
    /\ isActive' = [isActive EXCEPT ![e] = TRUE]
    /\ extUpdating' = [extUpdating EXCEPT ![e] = TRUE]
    /\ wsSent' = SendEvent(wsSent, "extinguisher_used", e, "activated")
    /\ UNCHANGED <<originalScale, currentScale, fireIntensity, isBeingExtinguished, fireEvents,
                   currentTargetFire, extPos, wsSet, wsConnected>>
    /\ UNCHANGED notFire

\* onTriggerEnd: onExtinguisherDeactivated
ExtinguisherDeactivated(e) ==
    /\ nMoves < MaxMoves
    /\ isActive[e]
    /\ nMoves' = nMoves + 1
    /\ isActive' = [isActive EXCEPT ![e] = FALSE]
    /\ currentTargetFire' = [currentTargetFire EXCEPT ![e] = "none"]
    /\ LET w == StopExtinguishing(World, currentTargetFire[e])
       IN SetWorld([w EXCEPT !.sent = SendEvent(@, "extinguisher_used", e, "deactivated")])
    /\ UNCHANGED <<originalScale, currentScale, fireIntensity, extUpdating, extPos, wsSet,
                   wsConnected>>
    /\ UNCHANGED notFire

\* the user carries the extinguisher somewhere else
MoveExtinguisher(e, pos) ==
    /\ nMoves < MaxMoves
    /\ pos # extPos[e]
    /\ nMoves' = nMoves + 1
    /\ extPos' = [extPos EXCEPT ![e] = pos]
    /\ UNCHANGED <<originalScale, currentScale, fireIntensity, isBeingExtinguished, fireEvents,
                   isActive, currentTargetFire, extUpdating, wsSet, wsConnected, wsSent>>
    /\ UNCHANGED notFire

\* webSocket.onopen / onclose
SocketChanged(connected) ==
    /\ nMoves < MaxMoves
    /\ connected # wsConnected
    /\ nMoves' = nMoves + 1
    /\ wsConnected' = connected
    /\ UNCHANGED <<originalScale, currentScale, fireIntensity, isBeingExtinguished, fireEvents,
                   isActive, currentTargetFire, extUpdating, extPos, wsSet, wsSent>>
    /\ UNCHANGED notFire

\* ---- frames

\* the UpdateEvent of an extinguisher: updateExtinguisher
UpdateExtinguisher(e) ==
    /\ extUpdating[e]
    /\ isActive[e]
    /\ LET nearbyFire == FindNearestFire(e)
       IN IF nearbyFire # currentTargetFire[e]
          THEN /\ currentTargetFire' = [currentTargetFire EXCEPT ![e] = nearbyFire]
               /\ SetWorld(StartExtinguishing(
                      StopExtinguishing(World, currentTargetFire[e]), nearbyFire))
          ELSE UNCHANGED <<currentTargetFire, isBeingExtinguished, fireEvents, wsSent>>
    /\ UNCHANGED <<originalScale, currentScale, fireIntensity, isActive, extUpdating, extPos,
                   wsSet, wsConnected, nMoves>>
    /\ UNCHANGED notFire

\* the UpdateEvents of a fire in one frame
UpdateFire(f, dt) ==
    /\ fireEvents[f] > 0
    /\ LET r == RunUpdateEvents(fireEvents[f],
                                [scale |-> currentScale[f], intensity |-> fireIntensity[f],
                                 being |-> isBeingExtinguished[f], sent |-> wsSent],
                                f, dt)
       IN /\ currentScale' = [currentScale EXCEPT ![f] = r.scale]
          /\ fireIntensity' = [fireIntensity EXCEPT ![f] = r.intensity]
          /\ isBeingExtinguished' = [isBeingExtinguished EXCEPT ![f] = r.being]
          /\ wsSent' = r.sent
    /\ UNCHANGED <<originalScale, fireEvents, isActive, currentTargetFire, extUpdating, extPos,
                   wsSet, wsConnected, nMoves>>
    /\ UNCHANGED notFire

FireInit ==
    /\ FireStart(OriginalScales, {TRUE})
    /\ DownStart({48000})
    /\ RelayStart
    /\ MenuStart({"full"}, {TRUE})
    /\ IdleGen
    /\ IdleSnap

FireNext ==
    \/ \E e \in Extinguishers : ExtinguisherActivated(e)
    \/ \E e \in Extinguishers : ExtinguisherDeactivated(e)
    \/ \E e \in Extinguishers, pos \in Positions : MoveExtinguisher(e, pos)
    \/ \E connected \in BOOLEAN : SocketChanged(connected)
    \/ \E e \in Extinguishers : UpdateExtinguisher(e)
    \/ \E f \in Fires, dt \in DeltaTimes : UpdateFire(f, dt)

SpecFire == FireInit /\ [][FireNext]_vars

\* frames keep coming: every bound UpdateEvent runs again and again
FireFairness ==
    /\ \A e \in Extinguishers : WF_vars(UpdateExtinguisher(e))
    /\ \A f \in Fires : WF_vars(\E dt \in DeltaTimes : UpdateFire(f, dt))

SpecFireFair == SpecFire /\ FireFairness

----------------------------------------------------------------------------
(* Claims about the fires and the extinguishers                            *)

\* the non-extinguished fires within extinguisherRange of an extinguisher
FiresInRange(e) ==
    {f \in Fires : ~IsExtinguished(f) /\ Distance(extPos[e], f) <= ExtinguisherRange}

\* t is a nearest non-extinguished fire in range, none when there is none
IsNearestFire(e, t) ==
    IF FiresInRange(e) = {} THEN t = "none"
    ELSE /\ t \in FiresInRange(e)
         /\ \A g \in FiresInRange(e) : Distance(extPos[e], t) <= Distance(extPos[e], g)

C15_RateIndependentOfRestarts ==
    [][\A f \in Fires, dt \in DeltaTimes :
          (UpdateFire(f, dt) /\ isBeingExtinguished[f]) =>
              currentScale'[f][1] =
                  Max(currentScale[f][1] - ScaleReduction(dt),
                      originalScale[f][1] * MinimumScale)]_vars

C17_ScaleNeverIncreases ==
    [][\A f \in Fires :
          /\ \A i \in 1..3 : /\ currentScale'[f][i] <= currentScale[f][i]
                             /\ currentScale'[f][i] >= originalScale[f][i] * MinimumScale
          /\ IsExtinguished(f) => (fireIntensity'[f] = 0 /\ IsExtinguished(f)')]_vars

\* the statuses of the notifications sent in this step
SentNow == {wsSent'[i].status : i \in (Len(wsSent) + 1)..Len(wsSent')}

\* C18: when a fire or an extinguisher that has a WebSocketController changes
\* status while the socket is connected, a notification with that status is sent.
C18_StatusChangesAreSent ==
    [][(wsSet /\ wsConnected) =>
          /\ \A f \in Fires :
                /\ (~isBeingExtinguished[f] /\ isBeingExtinguished'[f]) => "started" \in SentNow
                /\ (~IsExtinguished(f) /\ IsExtinguished(f)') => "extinguished" \in SentNow
          /\ \A e \in Extinguishers :
                /\ (~isActive[e] /\ isActive'[e]) => "activated" \in SentNow
                /\ (isActive[e] /\ ~isActive'[e]) => "deactivated" \in SentNow]_vars

----------------------------------------------------------------------------
(* A generated object: Snap3DInteractable                                  *)

\* the prompts given to generated objects, as sequences of characters
Prompts ==
    { <<"C", "a", "m", "p", "f", "i", "r", "e">>,
      <<"F", "i", "r", "e", " ", "E", "x", "t", "i", "n", "g", "u", "i", "s", "h", "e", "r">>,
      <<"f", "i", "r", "e", " ", "t", "r", "u", "c", "k">>,
      <<"R", "e", "d", " ", "A", "p", "p", "l", "e">>,
      <<"F", "I", "R", "E", " ", "A", "L", "A", "R", "M">>,
      <<"f", "i", "r", "e", " ", "s", "a", "f", "e", "t", "y", " ", "k", "i", "t">>,
      <<"B", "u", "r", "n", "i", "n", "g", " ", "T", "o", "r", "c", "h">>,
      <<"e", "x", "t", "i", "n", "g", "u", "i", "s", "h", "e", "r", " ", "o", "n", " ", "f", "i", "r", "e">>,
      <<"f", "i", "r", "e", "p", "l", "a", "c", "e">>,
      <<"b", "l", "a", "z", "e", " ", "b", "y", " ", "f", "i", "r", "e", " ", "s", "t", "a", "t", "i", "o", "n">>,
      <<>>,
      <<"F", "i", "r", "e", " ", "H", "y", "d", "r", "a", "n", "t">>,
      <<"f", "i", "r", "e", " ", "s", "u", "p", "p", "r", "e", "s", "s", "o", "r">>,
      <<"F", "l", "a", "m", "i", "n", "g", " ", "S", "w", "o", "r", "d">> }

UpperCaseLetters == <<"A", "B", "C", "D", "E", "F", "G", "H", "I", "J", "K", "L", "M", "N", "O", "P", "Q", "R", "S", "T", "U", "V", "W", "X", "Y", "Z">>
LowerCaseLetters == <<"a", "b", "c", "d", "e", "f", "g", "h", "i", "j", "k", "l", "m", "n", "o", "p", "q", "r", "s", "t", "u", "v", "w", "x", "y", "z">>

\* String.prototype.toLowerCase
ToLowerCase(text) ==
    [i \in 1..Len(text) |->
        IF \E k \in 1..Len(UpperCaseLetters) : UpperCaseLetters[k] = text[i]
        THEN LowerCaseLetters[CHOOSE k \in 1..Len(UpperCaseLetters) : UpperCaseLetters[k] = text[i]]
        ELSE text[i]]

\* String.prototype.includes
Includes(text, keyword) ==
    \E i \in 0..(Len(text) - Len(keyword)) : SubSeq(text, i + 1, i + Len(keyword)) = keyword

\* excludeKeywords of isFireObject
ExcludeKeywords ==
    { <<"f", "i", "r", "e", " ", "a", "l", "a", "r", "m">>,
      <<"f", "i", "r", "e", " ", "e", "x", "t", "i", "n", "g", "u", "i", "s", "h", "e", "r">>,
      <<"f", "i", "r", "e", " ", "d", "e", "t", "e", "c", "t", "o", "r">>,
      <<"f", "i", "r", "e", " ", "s", "a", "f", "e", "t", "y">>,
      <<"f", "i", "r", "e", " ", "d", "e", "p", "a", "r", "t", "m", "e", "n", "t">>,
      <<"f", "i", "r", "e", " ", "t", "r", "u", "c", "k">>,
      <<"f", "i", "r", "e", " ", "s", "t", "a", "t", "i", "o", "n">>,
      <<"f", "i", "r", "e", " ", "h", "y", "d", "r", "a", "n", "t">> }

\* fireKeywords of isFireObject
FireKeywords ==
    { <<"f", "i", "r", "e">>,
      <<"f", "l", "a", "m", "e">>,
      <<"f", "l", "a", "m", "e", "s">>,
      <<"b", "u", "r", "n", "i", "n", "g">>,
      <<"b", "l", "a", "z", "e">>,
      <<"i", "n", "f", "e", "r", "n", "o">>,
      <<"c", "a", "m", "p", "f", "i", "r", "e">>,
      <<"b", "o", "n", "f", "i", "r", "e">>,
      <<"t", "o", "r", "c", "h">>,
      <<"e", "m", "b", "e", "r">>,
      <<"f", "l", "a", "m", "i", "n", "g">> }

\* extinguisherKeywords of isFireExtinguisher
ExtinguisherKeywords ==
    { <<"f", "i", "r", "e", " ", "e", "x", "t", "i", "n", "g", "u", "i", "s", "h", "e", "r">>,
      <<"e", "x", "t", "i", "n", "g", "u", "i", "s", "h", "e", "r">>,
      <<"f", "i", "r", "e", " ", "s", "u", "p", "p", "r", "e", "s", "s", "o", "r">>,
      <<"f", "i", "r", "e", "f", "i", "g", "h", "t", "i", "n", "g", " ", "e", "q", "u", "i", "p", "m", "e", "n", "t">>,
      <<"f", "i", "r", "e", " ", "s", "a", "f", "e", "t", "y">> }

\* Snap3DInteractable.isFireObject
IsFireObjectNoExclusion(prompt) ==
    \E keyword \in FireKeywords : Includes(prompt, keyword)
IsFireObject(prompt) ==
    IF \E exclude \in ExcludeKeywords : Includes(prompt, exclude) THEN FALSE
    ELSE \E keyword \in FireKeywords : Includes(prompt, keyword)

\* Snap3DInteractable.isFireExtinguisher
IsFireExtinguisher(prompt) ==
    \E keyword \in ExtinguisherKeywords : Includes(prompt, keyword)

\* detectAndSetupSpecialBehaviors with setupFireExtinguisherBehavior and
\* setupFireBehavior, on the object o = [components, name]
DetectAndSetupSpecialBehaviors(o) ==
    LET prompt == ToLowerCase(promptText)
    IN IF IsFireExtinguisher(prompt)
       THEN [components |-> Append(o.components, "FireExtinguisherController"),
             name |-> Append(o.name, " [EXTINGUISHER]")]
       ELSE IF IsFireObject(prompt)
       THEN [components |-> Append(o.components, "FireBehavior"),
             name |-> Append(o.name, " [FIRE]")]
       ELSE o

\* Snap3DInteractable.setWebSocketController
SetSnapController ==
    /\ ~snapController
    /\ snapController' = TRUE
    /\ UNCHANGED <<promptText, objectName, components, hasTempModel, hasFinalModel,
                   nDeliveries>>
    /\ UNCHANGED notSnap

\* Snap3DInteractable.setModel
SetModel(isFinal) ==
    /\ nDeliveries < MaxDeliveries
    /\ nDeliveries' = nDeliveries + 1
    /\ IF isFinal
       THEN LET o == DetectAndSetupSpecialBehaviors([components |-> components,
                                                    name |-> objectName])
            IN /\ hasFinalModel' = TRUE
               /\ components' = o.components
               /\ objectName' = o.name
               /\ UNCHANGED hasTempModel
       ELSE /\ hasTempModel' = TRUE
            /\ UNCHANGED <<hasFinalModel, components, objectName>>
    /\ UNCHANGED <<promptText, snapController>>
    /\ UNCHANGED notSnap

SnapInit ==
    /\ SnapStart(Prompts)
    /\ DownStart({48000})
    /\ RelayStart
    /\ MenuStart({"full"}, {TRUE})
    /\ IdleGen
    /\ IdleFire

SnapNext ==
    \/ SetSnapController
    \/ \E isFinal \in BOOLEAN : SetModel(isFinal)

SpecSnap == SnapInit /\ [][SnapNext]_vars

\* the special components the prompt calls for: the extinguisher's when the
\* lower-cased prompt holds an extinguisher keyword, else the fire's when it
\* holds a fire keyword and no excluded phrase, else none
BehavioursFor(text) ==
    LET lower == ToLowerCase(text)
        hasExtinguisher == \E k \in ExtinguisherKeywords : Includes(lower, k)
        hasFire == \E k \in FireKeywords : Includes(lower, k)
        hasExcluded == \E k \in ExcludeKeywords : Includes(lower, k)
    IN IF hasExtinguisher THEN <<"FireExtinguisherController">>
       ELSE IF hasFire /\ ~hasExcluded THEN <<"FireBehavior">>
       ELSE <<>>

\* C19: a final model gives the object at most one special behaviour: the
\* extinguisher's if the lower-cased prompt contains an extinguisher keyword,
\* otherwise the fire's if it contains a fire keyword and no excluded phrase,
\* otherwise none; never both.
C19_OneBehaviourPerPrompt ==
    [][SetModel(TRUE) =>
          /\ components' = components \o BehavioursFor(promptText)
          /\ Len(components') <= Len(components) + 1]_vars

\* a prompt with capitals that holds both a fire and an extinguisher keyword
C19_Witness ==
    /\ promptText = <<"F", "i", "r", "e", " ", "E", "x", "t", "i", "n", "g", "u", "i", "s", "h", "e", "r">>
    /\ hasFinalModel
    /\ nDeliveries = 1
    /\ components = <<"FireExtinguisherController">>
    /\ objectName = <<"Snap3DInteractable", " [EXTINGUISHER]">>

\* C20: however many final models are delivered, the object carries at most
\* one FireBehavior or FireExtinguisherController component and its name
\* carries the tag at most once.
C20_SetUpAtMostOnce ==
    /\ Len(components) <= 1
    /\ Len(objectName) <= 2

----------------------------------------------------------------------------
(* C11: within one generation sequence the prompts are requested from the   *)
(* factory strictly in list order, each exactly once; the request for      *)
(* prompt i+1 is issued only after the request for prompt i has settled;   *)
(* at no time are two factory requests outstanding.                        *)
C11_SequentialRequests ==
    /\ Len(genPending) <= 1
    /\ Len(genLog) <= numPrompts
    /\ \A j \in 1..Len(genLog) : genLog[j] = j
    /\ genPending # <<>> =>
          /\ genPending[1] = genLog[Len(genLog)]
          /\ Len(genOutcomes) = Len(genLog) - 1
    /\ genPending = <<>> => Len(genOutcomes) = Len(genLog)

C11_Witness ==
    /\ isGenerating
    /\ genLog = <<1, 2, 3>>
    /\ genOutcomes = <<"failed", "ok">>
    /\ genPending = <<3>>

(* C12: while a generation sequence is in progress (isGenerating), a button *)
(* pinch starts no new sequence and issues no factory request; a pinch is  *)
(* accepted again only after the running sequence has processed its last   *)
(* prompt.                                                                 *)
C12_PinchWhileGenerating ==
    [][(lastPinch' # lastPinch \/ nSequences' # nSequences) =>
          /\ isGenerating =>
                /\ nSequences' = nSequences
                /\ genPending' = genPending
                /\ genLog' = genLog
                /\ isGenerating'
          /\ nSequences' # nSequences =>
                /\ ~isGenerating
                /\ genPending = <<>>
                /\ genTimers = {}
                /\ nSequences > 0 =>
                      Len(genLog) = numPrompts /\ Len(genOutcomes) = numPrompts]_vars

C12_Witness ==
    /\ lastPinch = "rejected"
    /\ isGenerating
    /\ nSequences = 2
    /\ Len(genLog) = 2

\* the running sequence has processed every prompt and ended
GenDone ==
    /\ ~isGenerating
    /\ Len(genLog) = numPrompts
    /\ Len(genOutcomes) = numPrompts

(* C13 as stated: provided every factory request eventually settles and    *)
(* delayed callbacks eventually fire, a started sequence eventually        *)
(* processes every prompt and ends with isGenerating false, for any mix of *)
(* successes and failures.                                                 *)
C13_EventuallyDone == isGenerating ~> GenDone

(* C13 amended: the same, provided also that the anchor operations the     *)
(* anchored variant awaits (createWorldAnchor, saveAnchor) eventually      *)
(* settle.                                                                 *)
C13_EventuallyDoneIfAnchorsSettle ==
    []<>(anchorOp = "none") => (isGenerating ~> GenDone)

C13_Witness ==
    /\ GenDone
    /\ genVariant = "anchored"
    /\ nSequences = 1
    /\ genOutcomes = <<"ok", "failed", "ok">>
    /\ Len(createdObjects) = 1
    /\ savedAnchors = {}

\* C21: in the anchored generator, once createAnchorForObject has returned,
\* every id listed in createdObjects has a world anchor under the same id in
\* objectAnchors and that anchor was saved to the anchor session, whatever
\* anchor operations failed.
C21_ListedAnchorsAreSaved ==
    (genVariant = "anchored" /\ anchorOp = "none") =>
        \A i \in 1..Len(createdObjects) :
            /\ createdObjects[i] \in objectAnchors
            /\ createdObjects[i] \in savedAnchors

----------------------------------------------------------------------------
\* the menu holds exactly one button per config, in config order, with the
\* config's id and text, and no other button object is alive
ButtonsMatch(configs) ==
    /\ Len(children) = Len(configs)
    /\ \A i \in 1..Len(children) :
          /\ children[i].tracked
          /\ children[i].id = configs[i].id
          /\ children[i].text = configs[i].text

(* C8: after createButtons(configs), reached through any sequence          *)
(* of createButtons, addButton, removeButton and clearButtons calls, the    *)
(* menu holds exactly one button per config, in config order, each with    *)
(* that config's id and text, every earlier button is destroyed, and the   *)
(* menu is visible; after clearButtons the menu holds no buttons.          *)
C8_ButtonsPerConfig ==
    /\ last.op = "create" => ButtonsMatch(buttonConfigs) /\ menuEnabled
    /\ last.op = "clear" => children = <<>>

C8_Witness ==
    /\ last.op = "create"
    /\ prefab = "full"
    /\ nAdds = 1
    /\ Len(children) = 5
    /\ children[1].id = "action1" /\ children[1].text = "Action 1"
    /\ children[5].id = "help" /\ children[5].text = "Help"
    /\ menuEnabled

\* the action type the documentation gives for a button id
ActionTypeOf(buttonId) ==
    CASE buttonId = "action1" -> "custom_action_1"
      [] buttonId = "action2" -> "custom_action_2"
      [] buttonId = "action3" -> "custom_action_3"
      [] buttonId = "close" -> "menu_closed"
      [] OTHER -> "unknown_action"

(* C9: every click on a menu button makes MenuManager fire exactly one      *)
(* onMenuAction event, whose buttonId is the clicked button's id and whose *)
(* type is the one given for that id; menu_closed is fired after the menu  *)
(* has been hidden; unknown_action carries the button's text.              *)
C9_ClickFiresOneAction ==
    last.op = "click" =>
        /\ Len(last.fired) = 1
        /\ last.fired[1].buttonId = last.id
        /\ last.fired[1].actionType = ActionTypeOf(last.id)
        /\ last.id = "close" => ~last.fired[1].menuVisible /\ ~menuEnabled
        /\ ActionTypeOf(last.id) = "unknown_action" => last.fired[1].data = last.text

C9_Witness ==
    /\ last.op = "click"
    /\ last.id = "close"
    /\ last.text = "Close"
    /\ last.fired[1].actionType = "menu_closed"
    /\ ~menuEnabled

(* C10: when showMenuOnStart is false, after the start callbacks of         *)
(* MenuManager, ButtonMenu and MenuExample have all run, in any order, no  *)
(* menu buttons have been created, as long as no public method was called. *)
C10_NotShownOnStart ==
    (~showMenuOnStart /\ meLinked /\ bmStarted /\ mmStarted /\ meStarted /\ ~apiCalled)
        => children = <<>>

----------------------------------------------------------------------------
Mapped(p) == <<pairSid[p], p>> \in sessionMap

(* C4: within one direction of one session the relay forwards frames        *)
(* strictly in arrival order: the messages seen by the upstream are the    *)
(* frames the client sent, one frame per message, in the sent order, and   *)
(* while the session is mapped every sent frame is either delivered or     *)
(* still waiting to be forwarded.                                           *)
C4_ArrivalOrder ==
    \A p \in Pairs :
        /\ Len(seenUp[p]) <= Len(sentUp[p])
        /\ \A i \in 1..Len(seenUp[p]) : seenUp[p][i] = <<sentUp[p][i]>>
        /\ Mapped(p) => Len(seenUp[p]) + Len(queueUp[p]) = Len(sentUp[p])

C4_Witness ==
    \E p \in Pairs :
        /\ Len(sentUp[p]) = 2
        /\ Len(seenUp[p]) = 2
        /\ clientLeg[p] = "open" /\ upLeg[p] = "open"

(* C5: when either connection of a pair closes, the relay eventually        *)
(* closes the other connection and removes the session's entry from the    *)
(* session mapping.                                                         *)
C5_EventualTeardown ==
    \A p \in Pairs :
        (clientLeg[p] = "closed" \/ upLeg[p] = "closed")
            ~> (clientLeg[p] = "closed" /\ upLeg[p] = "closed" /\ ~Mapped(p))

C5_Witness ==
    \E p \in Pairs :
        /\ closedBy[p] = "client"
        /\ nFrames > 0
        /\ clientLeg[p] = "closed" /\ upLeg[p] = "closed"
        /\ ~Mapped(p)

(* C6: two concurrent sessions are isolated: every frame delivered to a     *)
(* pair's upstream connection was sent by that pair's client, and every    *)
(* frame delivered to a pair's client was sent by that pair's upstream.    *)
C6_Isolation ==
    \A p \in Pairs :
        /\ \A i \in 1..Len(seenUp[p]) : \A j \in 1..Len(seenUp[p][i]) :
               seenUp[p][i][j].src = p /\ seenUp[p][i][j].dir = "up"
        /\ \A i \in 1..Len(seenDown[p]) : \A j \in 1..Len(seenDown[p][i]) :
               seenDown[p][i][j].src = p /\ seenDown[p][i][j].dir = "down"

C6_Witness ==
    /\ Mapped(1) /\ Mapped(2)
    /\ pairSid[1] # pairSid[2]
    /\ seenUp[1] # <<>>
    /\ seenDown[2] # <<>>

\* a pair is active while one of its connections is still up
Active(p) == clientLeg[p] = "open" \/ upLeg[p] \in {"connecting", "open"}

(* C7: a session identifier maps to at most one active connection pair, in  *)
(* every reachable state, also while sessions start and are torn down.     *)
C7_OnePairPerSession ==
    \A sid \in SessionIds :
        /\ Cardinality({e \in sessionMap : e[1] = sid}) <= 1
        /\ Cardinality({p \in Pairs : pairSid[p] = sid /\ Active(p)}) <= 1

C7_Witness ==
    /\ pairSid[1] = "sA" /\ ~Mapped(1) /\ ~Active(1)
    /\ pairSid[2] = "sA" /\ Mapped(2) /\ upLeg[2] = "connecting"

----------------------------------------------------------------------------
(* C1: the downsampler returns exactly floor(K / (R/16000)) samples for a   *)
(* block of K samples at native rate R, and every output sample is in the  *)
(* int16 range, whatever the input samples are.                            *)
C1_LengthAndRange ==
    phase = "posted" =>
        /\ Len(pcm16) * sampleRate <= Len(input) * TargetRate
        /\ Len(input) * TargetRate < (Len(pcm16) + 1) * sampleRate
        /\ \A i \in 1..Len(pcm16) : pcm16[i] >= -32768 /\ pcm16[i] <= 32767

C1_Witness ==
    /\ phase = "posted"
    /\ sampleRate = 44100
    /\ Len(input) = 6
    /\ Len(pcm16) = 2
    /\ input[1] < -SampleDen /\ pcm16[1] = -32768
    /\ input[3] > SampleDen /\ pcm16[2] = 32767

----------------------------------------------------------------------------
\* v is the Int16 value of sample numerator s: clamped to [-1, 1], then scaled by
\* 32768 (negative) or 32767 (non-negative), the fraction dropped toward zero
IsPcmOf(s, v) ==
    IF s <= -SampleDen THEN v = -32768
    ELSE IF s >= SampleDen THEN v = 32767
    ELSE IF s < 0 THEN v * SampleDen >= s * 32768 /\ v * SampleDen < s * 32768 + SampleDen
    ELSE v * SampleDen <= s * 32767 /\ s * 32767 < v * SampleDen + SampleDen

Abs(x) == IF x < 0 THEN -x ELSE x

(* C2 as stated: output sample i comes from the input sample NEAREST to     *)
(* source position i * (R/16000), clamped to [-1, 1] and then scaled.       *)
C2_NearestSample ==
    phase = "posted" =>
        \A i \in 1..Len(pcm16) :
            \E k \in 0..(Len(input) - 1) :
                /\ 2 * Abs(k * TargetRate - (i - 1) * sampleRate) <= TargetRate
                /\ IsPcmOf(input[k + 1], pcm16[i])

(* C2 amended: output sample i comes from the input sample at index         *)
(* floor(i * (R/16000)) (the sample at or before the source position; for  *)
(* an integer ratio exactly index i * ratio), clamped to [-1, 1] and only  *)
(* then scaled to 16 bits.                                                  *)
C2_FloorSample ==
    phase = "posted" =>
        \A i \in 1..Len(pcm16) :
            \E k \in 0..(Len(input) - 1) :
                /\ k * TargetRate <= (i - 1) * sampleRate
                /\ (i - 1) * sampleRate < (k + 1) * TargetRate
                /\ IsPcmOf(input[k + 1], pcm16[i])

C2_Witness ==
    /\ phase = "posted"
    /\ sampleRate = 44100
    /\ Len(pcm16) = 2
    /\ input[3] = -3 /\ input[4] = 5
    /\ pcm16[2] = -24576

(* C3: the preprocessor is stateless across blocks: the remnant buffer is   *)
(* empty before and after every process call, and the PCM posted for a     *)
(* block is a function of that block alone.                                 *)
C3_Stateless ==
    /\ remnant = <<>>
    /\ phase = "posted" => pcm16 = DownsampleTo16k(input, sampleRate)

C3_Witness ==
    /\ phase = "posted"
    /\ nPosted = 2
    /\ sampleRate = 44100
    /\ prevLen = 5
    /\ Len(input) = 6
    /\ Len(pcm16) = 2
    /\ remnant = <<>>

(* C22: when the menu container carries a ContainerFrame, after              *)
(* createButtons with n >= 1 configs the container's inner height is        *)
(* (n - 1) * buttonSpacing + 6, in whatever order the start callbacks of    *)
(* ButtonMenu and MenuManager ran.                                          *)
C22_ContainerHeight ==
    (hasContainer /\ last.op = "create" /\ Len(buttonConfigs) >= 1) =>
        innerHeight = HeightFor(Len(buttonConfigs))

====
